---- MODULE Spec2Model ----
(***************************************************************************)
(* Model of the firezone-ping ICMP echo client: the event loop of          *)
(* Pinger::ping (src/src/pinger.rs), run by one task per host over a       *)
(* shared, lock-guarded map of active requests (src/src/async.rs).         *)
(*                                                                         *)
(* Time is a discrete clock `now`; Instant and Duration values are counted  *)
(* in ticks, each far longer than one iteration of the loop.               *)
(* Each engine owns a raw socket that receives a copy of every ICMP packet *)
(* arriving at the host; packets arrive one at a time.  The printed lines  *)
(* are kept without their ttl and latency fields.                          *)
(***************************************************************************)
EXTENDS Integers, Naturals, Sequences, FiniteSets, TLC

\* ------------------------------------------------------------------ bounds

\* largest number of requests of one host (parser.rs allows 1..=10)
MaxReq == 2
\* how many transport errors (send or receive) happen in one run
MaxErrors == 1
\* longest buffer handed to the decoder
MaxLen == 8
\* per-request timeout of the callers (Duration::from_secs(5)), in ticks: longer
\* than every interval
TimeoutTicks == 5

\* the hosts of the batch, one engine (task) per host
Engines == {1, 2}
\* intervals between two requests, in ticks (always below the timeout)
Intervals == {1, 2}
MaxInterval == CHOOSE i \in Intervals : \A j \in Intervals : j <= i

\* no engine is still running after this time
MaxTime == MaxReq * (MaxInterval + 1) + TimeoutTicks + 1

\* sequence numbers in use
Seqs == 0 .. ((IF MaxReq > 3 THEN MaxReq ELSE 3) - 1)
IPs == {"A", "B"}
\* HashMap::get returning None; also `time` outside the send block
NoTime == -1

\* no value was decoded from buf
NotDecoded == [result |-> "none", echo |-> <<>>]

\* ------------------------------------------------------------------ state

VARIABLES
    now,          \* Instant::now()
    params,       \* PingParams of each engine: [ip, requests, interval]
    tracker,      \* active_requests: key -> send time, NoTime when absent
    poisoned,     \* the RwLock around active_requests is poisoned
    pc,           \* position of each engine in Pinger::ping
    seq,          \* send counter of each engine
    next_pkt,     \* Instant when the next echo should be sent
    timeouts,     \* BinaryHeap of Reverse((deadline, seq))
    outstanding,  \* HashSet of keys sent and not yet printed
    time,         \* send block: the Instant taken before send_to
    rxq,          \* packets waiting in each engine's socket
    delivered,    \* reply packets that reached the host
    replied,      \* reply packets some engine ran the reply section on
    emitted,      \* stdout lines of each engine, in order
    sent,         \* echo requests handed to send_to by each engine, in order
    log,          \* stderr lines about the failure of each engine's task
    rx_errors,    \* stderr: number of lines about a failed receive
    echo,         \* icmp.rs: the IcmpEcho value at hand, <<>> when there is none
    buf,          \* icmp.rs: the byte buffer at hand
    decoded       \* icmp.rs: what From<Vec<u8>> for IcmpEcho gave for buf

vars == <<now, params, tracker, poisoned, pc, seq, next_pkt, timeouts, outstanding,
          time, rxq, delivered, replied, emitted, sent, log, rx_errors,
          echo, buf, decoded>>

\* variant: the map is keyed by the sequence number alone
KeyBySeq(ip, s) == <<"A", s>>

\* ActiveRequestMap is keyed by (Ipv4Addr, u16)
Key(ip, s) == <<ip, s>>

Keys == {Key(ip, s) : ip \in IPs, s \in Seqs}

Ip(e) == params[e].ip
Requests(e) == params[e].requests
Interval(e) == params[e].interval


Running(e) == pc[e] \in {"recv", "scan", "send", "record", "timeout"}

\* BinaryHeap<Reverse<(Instant, u16)>>::peek: the least (deadline, seq)
HeapPeek(h) ==
    CHOOSE x \in h : \A y \in h : x[1] < y[1] \/ (x[1] = y[1] /\ x[2] <= y[2])

\* variant: the entry is due at its deadline already
DueAtDeadline(h, t) == h # {} /\ t >= HeapPeek(h)[1]

\* the least entry of heap h is due at time t
DueAt(h, t) == h # {} /\ t > HeapPeek(h)[1]

Due(e) == DueAt(timeouts[e], now)

\* variant: requests are sent whatever the counter
SendDueAlways(e) == now > next_pkt[e]

\* the guard of the send block
SendDue(e) == now > next_pkt[e] /\ seq[e] < Requests(e)

\* variant: the finish check waits for a counter above the request count
FinishCondAbove(e) == seq[e] > Requests(e)

\* the guard of the finish check
FinishCond(e) == seq[e] >= Requests(e)

\* variant: the interval is not added
NextPktNow(t, interval) == t

\* next_pkt after a send at time t
NextPkt(t, interval) == t + interval

\* the key the timeout loop removes from the map when it pops entry `top`
TimeoutKey(e, top) == Key(Ip(e), seq[e])

\* the line of a reply; its ttl and latency fields are left out
Success(ip, s) ==
    [kind |-> "Success", ip |-> ip, seq |-> s]

\* the line of a timeout, with the time it is printed at
Timeout(ip, s) ==
    [kind |-> "Timeout", ip |-> ip, seq |-> s, at |-> now]

\* variant: the success line is printed only for a reply from the engine's own host
SuccessLinesOwnHost(e, ip, s) ==
    IF tracker[Key(ip, s)] # NoTime /\ ip = Ip(e)
    THEN <<Success(ip, s)>>
    ELSE <<>>

\* the lines the reply section prints for a reply from ip with sequence s
SuccessLines(e, ip, s) ==
    IF tracker[Key(ip, s)] # NoTime
    THEN <<Success(ip, s)>>
    ELSE <<>>

\* variant: a failed send leaves the send block
AfterSendSkip(ok) == IF ok THEN "record" ELSE "recv"

\* where the send block goes after send_to returned
AfterSend(ok) == "record"

\* variant: the entry stays in the map
KeepEntry(map, k) == map

Remove(map, k) == [x \in DOMAIN map |-> IF x = k THEN NoTime ELSE map[x]]

\* the ICMP type of an echo reply and of an echo request, the size of the header
EchoReplyType == 0
EchoRequestType == 8
HeaderSize == 8

\* the echo reply to request s of host ip: what the loop reads of a packet is its
\* source address, its sequence number, its ICMP type and the length of its payload
Reply(ip, s) == [ip |-> ip, seq |-> s, ty |-> EchoReplyType, len |-> HeaderSize]

Packets == {Reply(ip, s) : ip \in IPs, s \in Seqs}

\* other ICMP packets from host A that carry sequence number 0: an echo request,
\* and payloads cut short
Strays == {q \in [ip : {"A"}, seq : {0}, ty : {EchoReplyType, EchoRequestType},
                  len : {HeaderSize - 4, HeaderSize}] : q \notin Packets}

\* EchoReplyPacket::new(payload) is Some
EchoReplyPacketNew(p) == p.len >= HeaderSize

\* transport errors so far: failed receives and failed sends
Errors ==
    rx_errors + Cardinality({x \in Engines \X (1 .. Cardinality(Seqs)) :
                                x[2] <= Len(sent[x[1]]) /\ ~sent[x[1]][x[2]].ok})

\* The loop runs on from one access to the shared map, the wire or the socket to
\* the next one; these give the place where it stops next.

\* from the top of the timeout loop, with heap h
ToTimeout(h) == IF DueAt(h, now) THEN "timeout" ELSE "recv"

\* from the top of the send block
ToSend(e) == IF SendDue(e) THEN "send" ELSE ToTimeout(timeouts[e])

\* from the finish check, with outstanding set out
ToFinish(e, out) ==
    IF FinishCond(e)
    THEN IF out = {} THEN "done" ELSE "scan"
    ELSE ToSend(e)

\* ------------------------------------------------------------------ initial state

\* the state before any task has run
Fresh ==
    /\ now = 0
    /\ tracker = [k \in Keys |-> NoTime]
    /\ poisoned = FALSE
    /\ seq = [e \in Engines |-> 0]
    /\ next_pkt = [e \in Engines |-> 0]
    /\ timeouts = [e \in Engines |-> {}]
    /\ outstanding = [e \in Engines |-> {}]
    /\ time = [e \in Engines |-> NoTime]
    /\ rxq = [e \in Engines |-> {}]
    /\ delivered = {}
    /\ replied = {}
    /\ emitted = [e \in Engines |-> <<>>]
    /\ sent = [e \in Engines |-> <<>>]
    /\ log = [e \in Engines |-> {}]
    /\ rx_errors = 0
    /\ echo = <<>>
    /\ buf = <<>>
    /\ decoded = NotDecoded

\* a batch of two hosts with distinct addresses (parse_input rejects duplicates);
\* the second host gets a single request, and a host with a single request, whose
\* interval is never used, gets the least interval
Init ==
    /\ params \in {f \in [Engines -> [ip : IPs, requests : 1 .. MaxReq, interval : Intervals]] :
                       /\ f[1].ip = "A" /\ f[2].ip = "B"
                       /\ f[2].requests = 1
                       /\ \A e \in Engines : f[e].requests = 1 => f[e].interval = 1}
    /\ pc = [e \in Engines |-> "init"]
    /\ Fresh

\* ------------------------------------------------------------------ orchestrator

\* the task acquires its transport channel and enters Pinger::ping
Acquire(e) ==
    /\ pc[e] = "init"
    /\ pc' = [pc EXCEPT ![e] = "recv"]
    /\ next_pkt' = [next_pkt EXCEPT ![e] = now]
    /\ UNCHANGED <<now, params, tracker, poisoned, seq, timeouts, outstanding, time, rxq, delivered, replied, emitted, sent, log, rx_errors,
                   echo, buf, decoded>>

\* transport_channel fails: the task returns the error, which nobody prints
AcquireFail(e) ==
    /\ pc[e] = "init"
    /\ pc' = [pc EXCEPT ![e] = "failed"]
    /\ UNCHANGED <<now, params, tracker, poisoned, seq, next_pkt, timeouts, outstanding,
                   time, rxq, delivered, replied, emitted, sent, log, rx_errors,
                   echo, buf, decoded>>

\* ------------------------------------------------------------------ receive

\* the finish check starts with outstanding set out
EnterFinish(e, out) ==
    /\ pc' = [pc EXCEPT ![e] = ToFinish(e, out)]

\* next_with_timeout returns Ok(None)
RecvNone(e) ==
    /\ pc[e] = "recv"
    /\ rxq[e] = {}
    /\ EnterFinish(e, outstanding[e])
    /\ UNCHANGED <<now, params, tracker, poisoned, seq, next_pkt, timeouts, outstanding,
                   time, rxq, delivered, replied, emitted, sent, log, rx_errors,
                   echo, buf, decoded>>

\* next_with_timeout returns Err
RecvErr(e) ==
    /\ pc[e] = "recv"
    /\ Errors < MaxErrors
    /\ rx_errors' = rx_errors + 1
    /\ EnterFinish(e, outstanding[e])
    /\ UNCHANGED <<now, params, tracker, poisoned, seq, next_pkt, timeouts, outstanding,
                   time, rxq, delivered, replied, emitted, sent, log, echo, buf, decoded>>

\* a packet arrives and the reply section runs under the write lock
RecvReply(e, p) ==
    /\ pc[e] = "recv"
    /\ p \in rxq[e]
    /\ ~poisoned
    /\ EchoReplyPacketNew(p)
    /\ emitted' = [emitted EXCEPT ![e] = @ \o SuccessLines(e, p.ip, p.seq)]
    /\ outstanding' = [outstanding EXCEPT ![e] = @ \ {Key(p.ip, p.seq)}]
    /\ tracker' = IF tracker[Key(p.ip, p.seq)] # NoTime
                  THEN Remove(tracker, Key(p.ip, p.seq))
                  ELSE tracker
    /\ rxq' = [rxq EXCEPT ![e] = @ \ {p}]
    /\ replied' = replied \cup {p}
    /\ EnterFinish(e, outstanding[e] \ {Key(p.ip, p.seq)})
    /\ UNCHANGED <<now, params, poisoned, seq, next_pkt, timeouts, time, delivered,
                   sent, log, rx_errors, echo, buf, decoded>>

\* println! panics while the write guard is held: the lock is poisoned and the
\* task ends with a JoinError
RecvPanic(e, p) ==
    /\ pc[e] = "recv"
    /\ p \in rxq[e]
    /\ ~poisoned
    /\ EchoReplyPacketNew(p)
    /\ tracker[Key(p.ip, p.seq)] # NoTime
    /\ poisoned' = TRUE
    /\ rxq' = [rxq EXCEPT ![e] = @ \ {p}]
    /\ pc' = [pc EXCEPT ![e] = "panicked"]
    /\ UNCHANGED <<now, params, tracker, seq, next_pkt, timeouts, outstanding, time, delivered, replied, emitted, sent, log, rx_errors,
                   echo, buf, decoded>>

\* EchoReplyPacket::new(payload) is None: the packet is passed over, the loop goes
\* on to the finish check
RecvDrop(e, p) ==
    /\ pc[e] = "recv"
    /\ p \in rxq[e]
    /\ ~EchoReplyPacketNew(p)
    /\ rxq' = [rxq EXCEPT ![e] = @ \ {p}]
    /\ EnterFinish(e, outstanding[e])
    /\ UNCHANGED <<now, params, tracker, poisoned, seq, next_pkt, timeouts, outstanding,
                   time, delivered, replied, emitted, sent, log, rx_errors,
                   echo, buf, decoded>>

\* the engine is about to take the lock of the map
AtLock(e) ==
    IF pc[e] = "recv"
    THEN \E p \in rxq[e] : EchoReplyPacketNew(p)
    ELSE pc[e] \in {"scan", "record", "timeout"}

\* read() or write() returns a PoisonError: ping returns PoisonedLockError
LockPoisoned(e) ==
    /\ poisoned
    /\ AtLock(e)
    /\ pc' = [pc EXCEPT ![e] = "failed"]
    /\ log' = [log EXCEPT ![e] = @ \cup {"Failed to ping"}]
    /\ UNCHANGED <<now, params, tracker, poisoned, seq, next_pkt, timeouts, outstanding,
                   time, rxq, delivered, replied, emitted, sent, rx_errors, echo, buf, decoded>>

\* ------------------------------------------------------------------ finish check

\* the keys of outstanding[e] that the read-locked lookups find absent from the map
Absent(e) == {msg \in outstanding[e] : tracker[msg] = NoTime}

\* the outstanding set after the keys rm found absent are removed
Finished(e, rm) == outstanding[e] \ rm

\* `for msg in outstanding.iter()`: the lookups of one finish check, taken together,
\* then the absent keys leave the outstanding set
FinishScan(e) ==
    /\ pc[e] = "scan"
    /\ ~poisoned
    /\ outstanding' = [outstanding EXCEPT ![e] = Finished(e, Absent(e))]
    /\ pc' = [pc EXCEPT ![e] = IF Finished(e, Absent(e)) = {} THEN "done" ELSE ToSend(e)]
    /\ UNCHANGED <<now, params, tracker, poisoned, seq, next_pkt, timeouts, time, rxq,
                   delivered, replied, emitted, sent, log, rx_errors, echo, buf, decoded>>

\* ------------------------------------------------------------------ send block

SendOk(e) ==
    /\ pc[e] = "send"
    /\ time' = [time EXCEPT ![e] = now]
    /\ sent' = [sent EXCEPT ![e] = Append(@, [seq |-> seq[e], at |-> now, ok |-> TRUE])]
    /\ pc' = [pc EXCEPT ![e] = AfterSend(TRUE)]
    /\ UNCHANGED <<now, params, tracker, poisoned, seq, next_pkt, timeouts, outstanding,
                   rxq, delivered, replied, emitted, log, rx_errors, echo, buf, decoded>>

\* send_to returns Err
SendFail(e) ==
    /\ pc[e] = "send"
    /\ Errors < MaxErrors
    /\ time' = [time EXCEPT ![e] = now]
    /\ sent' = [sent EXCEPT ![e] = Append(@, [seq |-> seq[e], at |-> now, ok |-> FALSE])]
    /\ pc' = [pc EXCEPT ![e] = AfterSend(FALSE)]
    /\ UNCHANGED <<now, params, tracker, poisoned, seq, next_pkt, timeouts, outstanding,
                   rxq, delivered, replied, emitted, log, rx_errors, echo, buf, decoded>>

\* schedule the next request and the timeout, record the request
Record(e) ==
    /\ pc[e] = "record"
    /\ ~poisoned
    /\ next_pkt' = [next_pkt EXCEPT ![e] = NextPkt(time[e], Interval(e))]
    /\ timeouts' = [timeouts EXCEPT ![e] = @ \cup {<<time[e] + TimeoutTicks, seq[e]>>}]
    /\ tracker' = [tracker EXCEPT ![Key(Ip(e), seq[e])] = time[e]]
    /\ outstanding' = [outstanding EXCEPT ![e] = @ \cup {Key(Ip(e), seq[e])}]
    /\ seq' = [seq EXCEPT ![e] = @ + 1]
    /\ time' = [time EXCEPT ![e] = NoTime]
    /\ pc' = [pc EXCEPT ![e] =
                 ToTimeout(timeouts[e] \cup {<<time[e] + TimeoutTicks, seq[e]>>})]
    /\ UNCHANGED <<now, params, poisoned, rxq, delivered, replied, emitted,
                   sent, log, rx_errors, echo, buf, decoded>>

\* ------------------------------------------------------------------ timeout loop

\* one iteration of the inner loop that pops a due entry
TimeoutPop(e) ==
    /\ pc[e] = "timeout"
    /\ ~poisoned
    /\ LET top == HeapPeek(timeouts[e]) IN
        /\ tracker' = Remove(tracker, TimeoutKey(e, top))
        /\ timeouts' = [timeouts EXCEPT ![e] = @ \ {top}]
        /\ emitted' = [emitted EXCEPT ![e] = Append(@, Timeout(Ip(e), top[2]))]
        /\ outstanding' = [outstanding EXCEPT ![e] = @ \ {Key(Ip(e), top[2])}]
        /\ pc' = [pc EXCEPT ![e] = ToTimeout(timeouts[e] \ {top})]
    /\ UNCHANGED <<now, params, poisoned, seq, next_pkt, time, rxq,
                   delivered, replied, sent, log, rx_errors, echo, buf, decoded>>

Ended(e) == pc[e] \in {"done", "failed", "panicked"}

\* stderr about engine e: `for task in tasks` awaits the tasks in order and prints
\* the JoinError of a task that panicked once the tasks before it have ended
Diagnostics(e) ==
    log[e] \cup (IF pc[e] = "panicked" /\ \A d \in Engines : d < e => Ended(d)
                 THEN {"ping failed"}
                 ELSE {})

\* ------------------------------------------------------------------ environment

\* send_to has put the echo request with sequence s for host ip on the wire
OnWire(ip, s) == \E e \in Engines : Ip(e) = ip /\ s < Len(sent[e]) /\ sent[e][s + 1].ok

\* an echo reply reaches the host: every open raw socket gets a copy; the sockets
\* have been read empty since the packet before it
Deliver(p) ==
    /\ p \notin delivered
    /\ OnWire(p.ip, p.seq)
    /\ \E e \in Engines : Running(e)
    /\ \A e \in Engines : Running(e) => rxq[e] = {}
    /\ delivered' = delivered \cup {p}
    /\ rxq' = [e \in Engines |-> IF Running(e) THEN rxq[e] \cup {p} ELSE rxq[e]]
    /\ UNCHANGED <<now, params, tracker, poisoned, pc, seq, next_pkt, timeouts,
                   outstanding, time, replied, emitted, sent, log, rx_errors, echo, buf, decoded>>

\* An engine that has something to do before the clock moves on: a tick is
\* hundreds of iterations of the loop, which waits at most 1 ms for a packet.
Late(e) ==
    \/ pc[e] \in {"init", "send", "record", "timeout"}
    \/ /\ pc[e] \in {"recv", "scan"}
       /\ \/ rxq[e] # {}
          \/ SendDue(e)
          \/ Due(e)
          \/ FinishCond(e) /\ \E k \in outstanding[e] : tracker[k] = NoTime

Tick ==
    /\ now < MaxTime
    /\ \E e \in Engines : pc[e] = "init" \/ Running(e)
    /\ \A e \in Engines : ~Late(e)
    /\ now' = now + 1
    /\ UNCHANGED <<params, tracker, poisoned, pc, seq, next_pkt, timeouts, outstanding,
                   time, rxq, delivered, replied, emitted, sent, log, rx_errors,
                   echo, buf, decoded>>

\* ------------------------------------------------------------------ specification

Next ==
    \/ \E e \in Engines : Acquire(e)
    \/ \E e \in Engines : AcquireFail(e)
    \/ \E e \in Engines : RecvNone(e)
    \/ \E e \in Engines : RecvErr(e)
    \/ \E e \in Engines, p \in Packets : RecvReply(e, p)
    \/ \E e \in Engines, p \in Packets : RecvPanic(e, p)
    \/ \E e \in Engines : LockPoisoned(e)
    \/ \E e \in Engines : FinishScan(e)
    \/ \E e \in Engines : SendOk(e)
    \/ \E e \in Engines : SendFail(e)
    \/ \E e \in Engines : Record(e)
    \/ \E e \in Engines : TimeoutPop(e)
    \/ \E p \in Packets : Deliver(p)
    \/ Tick

Spec == Init /\ [][Next]_vars

\* ---- every reply is lost; the transport is acquired, nothing panics

EngineLoss(e) ==
    \/ Acquire(e)
    \/ RecvNone(e)
    \/ RecvErr(e)
    \/ FinishScan(e)
    \/ SendOk(e)
    \/ SendFail(e)
    \/ Record(e)
    \/ TimeoutPop(e)

NextLoss ==
    \/ \E e \in Engines : Acquire(e)
    \/ \E e \in Engines : RecvNone(e)
    \/ \E e \in Engines : RecvErr(e)
    \/ \E e \in Engines : FinishScan(e)
    \/ \E e \in Engines : SendOk(e)
    \/ \E e \in Engines : SendFail(e)
    \/ \E e \in Engines : Record(e)
    \/ \E e \in Engines : TimeoutPop(e)
    \/ Tick

\* time advances and every task keeps being scheduled
SpecLoss ==
    /\ Init
    /\ [][NextLoss]_vars
    /\ WF_vars(Tick)
    /\ \A e \in Engines : WF_vars(EngineLoss(e))

\* ---- replies may arrive or be lost; the transport is acquired, nothing panics

EngineRun(e) ==
    \/ EngineLoss(e)
    \/ \E p \in Packets : RecvReply(e, p)

NextRun ==
    \/ \E e \in Engines : Acquire(e)
    \/ \E e \in Engines : RecvNone(e)
    \/ \E e \in Engines : RecvErr(e)
    \/ \E e \in Engines, p \in Packets : RecvReply(e, p)
    \/ \E e \in Engines : FinishScan(e)
    \/ \E e \in Engines : SendOk(e)
    \/ \E e \in Engines : SendFail(e)
    \/ \E e \in Engines : Record(e)
    \/ \E e \in Engines : TimeoutPop(e)
    \/ \E p \in Packets : Deliver(p)
    \/ Tick

SpecRun ==
    /\ Init
    /\ [][NextRun]_vars
    /\ WF_vars(Tick)
    /\ \A e \in Engines : WF_vars(EngineRun(e))

\* ---- one host with two requests; besides the replies, other ICMP packets
\* ---- reach the socket

InitRaw ==
    /\ params = [e \in Engines |->
                    IF e = 1
                    THEN [ip |-> "A", requests |-> 2, interval |-> 1]
                    ELSE [ip |-> "B", requests |-> 1, interval |-> 1]]
    /\ pc = [e \in Engines |-> IF e = 1 THEN "init" ELSE "none"]
    /\ Fresh

\* a packet that is no reply to a request reaches the host
DeliverStray(p) ==
    /\ p \notin delivered
    /\ \E e \in Engines : Running(e)
    /\ \A e \in Engines : Running(e) => rxq[e] = {}
    /\ delivered' = delivered \cup {p}
    /\ rxq' = [e \in Engines |-> IF Running(e) THEN rxq[e] \cup {p} ELSE rxq[e]]
    /\ UNCHANGED <<now, params, tracker, poisoned, pc, seq, next_pkt, timeouts,
                   outstanding, time, replied, emitted, sent, log, rx_errors, echo, buf, decoded>>

NextRaw ==
    \/ \E e \in Engines : Acquire(e)
    \/ \E e \in Engines : RecvNone(e)
    \/ \E e \in Engines, p \in Packets \cup Strays : RecvReply(e, p)
    \/ \E e \in Engines, p \in Strays : RecvDrop(e, p)
    \/ \E e \in Engines : FinishScan(e)
    \/ \E e \in Engines : SendOk(e)
    \/ \E e \in Engines : Record(e)
    \/ \E e \in Engines : TimeoutPop(e)
    \/ \E p \in Packets : Deliver(p)
    \/ \E p \in Strays : DeliverStray(p)
    \/ Tick

SpecRaw == InitRaw /\ [][NextRaw]_vars

\* ---- the scripted end-to-end run: one host with three requests, the stub
\* ---- transport replies to sequence 0 and 2 before their deadlines and drops
\* ---- sequence 1

InitScenario ==
    /\ params = [e \in Engines |->
                    IF e = 1
                    THEN [ip |-> "A", requests |-> 3, interval |-> 1]
                    ELSE [ip |-> "B", requests |-> 1, interval |-> 1]]
    /\ pc = [e \in Engines |-> IF e = 1 THEN "init" ELSE "none"]
    /\ Fresh

Scripted == {p \in Packets : p.ip = "A" /\ p.seq \in {0, 2}}

\* the deadline of the request a scripted reply answers
Deadline(p) == sent[1][p.seq + 1].at + TimeoutTicks

DeliverScripted(p) ==
    /\ p \in Scripted
    /\ OnWire(p.ip, p.seq)
    /\ now <= Deadline(p)
    /\ Deliver(p)

TickScripted ==
    /\ \A p \in Scripted : (OnWire(p.ip, p.seq) /\ p \notin delivered) => now < Deadline(p)
    /\ Tick

NextScenario ==
    \/ \E e \in Engines : Acquire(e)
    \/ \E e \in Engines : RecvNone(e)
    \/ \E e \in Engines, p \in Packets : RecvReply(e, p)
    \/ \E e \in Engines : FinishScan(e)
    \/ \E e \in Engines : SendOk(e)
    \/ \E e \in Engines : Record(e)
    \/ \E e \in Engines : TimeoutPop(e)
    \/ \E p \in Packets : DeliverScripted(p)
    \/ TickScripted

SpecScenario == InitScenario /\ [][NextScenario]_vars

TypeOK ==
    /\ now \in 0 .. MaxTime
    /\ poisoned \in BOOLEAN
    /\ rx_errors \in 0 .. MaxErrors
    /\ delivered \subseteq Packets \cup Strays
    /\ replied \subseteq delivered
    /\ \A k \in Keys : tracker[k] \in {NoTime} \cup (0 .. MaxTime)
    /\ \A e \in Engines :
        /\ pc[e] \in {"none", "init", "recv", "scan", "send", "record", "timeout",
                      "done", "failed", "panicked"}
        /\ seq[e] \in 0 .. Requests(e)
        /\ outstanding[e] \subseteq Keys
        /\ pc[e] = "scan" => outstanding[e] # {}
        /\ pc[e] = "timeout" => Due(e)
        /\ pc[e] = "send" => SendDue(e)

\* ------------------------------------------------------------------ icmp.rs

\* u8 and u16 arithmetic
Byte == 2 ^ 8
Word == 2 ^ 16

\* identifiers and sequence numbers an echo request is made with
Ids == {0, 1, 255, 256, 12345, 65535}
SeqNos == {0, 1, 255, 54321, 65280, 65535}
\* bytes of a buffer handed to the decoder
ByteVals == {0, 8, 255}
\* buffers of every length up to MaxLen
Buffers == UNION {[1 .. n -> ByteVals] : n \in 0 .. MaxLen}

\* From<u8> for IcmpType
IcmpType(value) ==
    IF value = 0 THEN <<"EchoReply">>
    ELSE IF value = 8 THEN <<"EchoRequest">>
    ELSE <<"Unknown", value>>

\* From<IcmpType> for u8
TypeU8(ty) ==
    IF ty = <<"EchoReply">> THEN 0
    ELSE IF ty = <<"EchoRequest">> THEN 8
    ELSE ty[2]

\* From<u8> for IcmpCode
IcmpCode(value) == IF value = 0 THEN <<"Zero">> ELSE <<"Unknown", value>>

\* From<IcmpCode> for u8
CodeU8(code) == IF code = <<"Zero">> THEN 0 ELSE code[2]

\* IcmpEcho::new
IcmpEchoNew(id, s) ==
    [ty |-> <<"EchoRequest">>, code |-> <<"Zero">>, id |-> id, seq |-> s]

\* u16::wrapping_add
WrappingAdd(a, b) == (a + b) % Word

\* variant: the sum of the words is not reduced to 16 bits
RECURSIVE SumWordsWide(_)
SumWordsWide(items) ==
    IF items = <<>>
    THEN 0
    ELSE SumWordsWide(SubSeq(items, 1, Len(items) - 1)) + items[Len(items)]

\* the loop of checksum: sum = sum.wrapping_add(item) over the items
RECURSIVE SumWords(_)
SumWords(items) ==
    IF items = <<>>
    THEN 0
    ELSE WrappingAdd(SumWords(SubSeq(items, 1, Len(items) - 1)), items[Len(items)])

\* !sum on a u16
Not16(x) == (Word - 1) - x

\* IcmpEcho::checksum
Checksum(e) ==
    LET word1 == TypeU8(e.ty) * Byte + CodeU8(e.code)
    IN  Not16(SumWords(<<word1, e.id, e.seq>>))

\* u16::to_be_bytes
ToBeBytes(x) == <<x \div Byte, x % Byte>>

\* variant: the bytes are read least significant first
FromLeBytes(b) == b[2] * Byte + b[1]

\* u16::from_be_bytes
FromBeBytes(b) == b[1] * Byte + b[2]

\* IcmpEcho::construct_buf on a buffer of 8 zero bytes (From<IcmpEcho> for Vec<u8>)
ConstructBuf(e) ==
    <<TypeU8(e.ty), CodeU8(e.code)>> \o ToBeBytes(Checksum(e))
        \o ToBeBytes(e.id) \o ToBeBytes(e.seq)

\* From<Vec<u8>> for IcmpEcho: indexing value[4..6], value[0], value[1],
\* value[6..8] panics on a buffer shorter than 8 bytes
DecodeBuf(value) ==
    IF Len(value) < 8
    THEN [result |-> "panic", echo |-> <<>>]
    ELSE [result |-> "value",
          echo |-> <<[ty |-> IcmpType(value[1]),
                      code |-> IcmpCode(value[2]),
                      id |-> FromBeBytes(SubSeq(value, 5, 6)),
                      seq |-> FromBeBytes(SubSeq(value, 7, 8))]>>]

\* the variables of the ping loop, which the codec leaves alone
pingvars == <<now, params, tracker, poisoned, pc, seq, next_pkt, timeouts, outstanding,
              time, rxq, delivered, replied, emitted, sent, log, rx_errors>>

\* no task runs: only the codec is exercised
InitCodec ==
    /\ params = [e \in Engines |-> [ip |-> IF e = 1 THEN "A" ELSE "B",
                                   requests |-> 1, interval |-> 1]]
    /\ pc = [e \in Engines |-> "none"]
    /\ Fresh

\* an echo request is made
NewEcho(id, s) ==
    /\ echo = <<>>
    /\ buf = <<>>
    /\ decoded = NotDecoded
    /\ echo' = <<IcmpEchoNew(id, s)>>
    /\ UNCHANGED <<buf, decoded>>
    /\ UNCHANGED pingvars

\* the echo at hand is encoded
Encode ==
    /\ echo # <<>>
    /\ buf = <<>>
    /\ buf' = ConstructBuf(echo[1])
    /\ UNCHANGED <<echo, decoded>>
    /\ UNCHANGED pingvars

\* a buffer comes from elsewhere
TakeBuffer ==
    /\ echo = <<>>
    /\ buf = <<>>
    /\ decoded = NotDecoded
    /\ buf' \in Buffers
    /\ UNCHANGED <<echo, decoded>>
    /\ UNCHANGED pingvars

\* the buffer at hand is decoded
Decode ==
    /\ decoded = NotDecoded
    /\ echo # <<>> => buf # <<>>
    /\ decoded' = DecodeBuf(buf)
    /\ UNCHANGED <<echo, buf>>
    /\ UNCHANGED pingvars

NextCodec ==
    \/ \E id \in Ids, s \in SeqNos : NewEcho(id, s)
    \/ Encode
    \/ TakeBuffer
    \/ Decode

SpecCodec == InitCodec /\ [][NextCodec]_vars

\* ------------------------------------------------------------------ outcomes

\* the printed outcomes of kind `kind` (or of any kind) for host ip, sequence s
Lines(ip, s, kinds) ==
    {<<e, i>> \in Engines \X (1 .. 2 * Cardinality(Seqs) + 1) :
        /\ i <= Len(emitted[e])
        /\ emitted[e][i].ip = ip
        /\ emitted[e][i].seq = s
        /\ emitted[e][i].kind \in kinds}

Kinds == {"Success", "Timeout"}

Count(ip, s) == Cardinality(Lines(ip, s, Kinds))

\* the timeout entry of sequence s has been popped from the heap of engine e
Popped(e, s) == s < seq[e] /\ \A t \in timeouts[e] : t[2] # s

\* ------------------------------------------------------------------ properties

\* C1: at most one outcome is ever printed for a host and a sequence number:
\* never a Success and a Timeout, never two of a kind.
AtMostOneOutcome ==
    \A ip \in IPs : \A s \in Seqs : Count(ip, s) <= 1

\* C2: when an engine has left its loop normally, every sequence number below its
\* request count has had an outcome printed by some engine.
DoneAllReported ==
    \A e \in Engines :
        pc[e] = "done" => \A s \in 0 .. (Requests(e) - 1) : Count(Ip(e), s) >= 1

\* an engine is done although one of its replies was matched by the other engine
DoneWithForeignMatch ==
    /\ pc[1] = "done"
    /\ \E i \in 1 .. Len(emitted[2]) : emitted[2][i].ip = Ip(1)

\* C3: when the reply section has run for a key on some engine and the owning
\* engine has popped the timeout entry of that key, whatever the order, exactly
\* one outcome has been printed for the key.
RaceExactlyOne ==
    \A e \in Engines : \A s \in Seqs :
        (Reply(Ip(e), s) \in replied /\ Popped(e, s)) => Count(Ip(e), s) = 1

\* the map entries, the outstanding set and the printed outcomes of host ip
EntriesOf(ip) == [s \in Seqs |-> tracker[Key(ip, s)]]
OutstandingOf(ip) == {outstanding[e] : e \in {d \in Engines : Ip(d) = ip}}
OutcomesOf(ip) == [s \in Seqs |-> Lines(ip, s, Kinds)]

\* C5: a step that prints an outcome for a key of one host leaves the map
\* entries, the outstanding set and the printed outcomes of every other host
\* unchanged.
ResolveFrame ==
    [][\A x \in IPs :
          OutcomesOf(x)' # OutcomesOf(x) =>
              \A y \in IPs \ {x} :
                  /\ EntriesOf(y)' = EntriesOf(y)
                  /\ OutstandingOf(y)' = OutstandingOf(y)
                  /\ OutcomesOf(y)' = OutcomesOf(y)]_vars

\* an outcome for A's sequence 0 is printed while B's sequence 0 is in the map
\* and outstanding
ResolvedBesideSibling ==
    /\ Count("A", 0) >= 1
    /\ tracker[Key("B", 0)] # NoTime
    /\ Key("B", 0) \in outstanding[2]

\* C7: an engine sends sequence numbers 0, 1, 2, ... in this order, and two
\* consecutive sends are at least the interval apart.
SendOrderSpacing ==
    \A e \in Engines : \A i \in 1 .. Len(sent[e]) :
        /\ sent[e][i].seq = i - 1
        /\ i > 1 => sent[e][i].at - sent[e][i - 1].at >= Interval(e)

\* two requests were sent by an engine whose interval is two ticks
TwoSendsSpaced ==
    \E e \in Engines : Len(sent[e]) >= 2 /\ Interval(e) = 2

\* C9: an engine that failed (no transport, or an error or a panic in its loop) has
\* a diagnostic printed about it.
FailureLogged ==
    \A e \in Engines :
        (pc[e] \in {"failed", "panicked"} /\ \A d \in Engines : Ended(d))
            => Diagnostics(e) # {}

\* C10: after the lock is poisoned no sibling engine that is running is ended by
\* it.
PoisonSparesSiblings ==
    [][\A e \in Engines : (poisoned /\ Running(e)) => pc'[e] # "failed"]_vars

\* the outcomes engine e printed, as (kind, sequence) pairs
Printed(e) == {<<emitted[e][i].kind, emitted[e][i].seq>> : i \in 1 .. Len(emitted[e])}

\* C4: in the scripted run the engine is done with an empty outstanding set
\* after printing exactly Success(0), Timeout(1), Success(2).
ScenarioOutcomes ==
    pc[1] = "done" =>
        /\ outstanding[1] = {}
        /\ Len(emitted[1]) = 3
        /\ Printed(1) = {<<"Success", 0>>, <<"Timeout", 1>>, <<"Success", 2>>}

\* C6: when every reply is lost each engine ends its loop, and by then each of
\* its sequence numbers has a Timeout line and no Success line.
LossTerminates ==
    /\ \A e \in Engines : <>(pc[e] = "done")
    /\ [](\A e \in Engines : pc[e] = "done" =>
            \A s \in 0 .. (Requests(e) - 1) :
                /\ Lines(Ip(e), s, {"Timeout"}) # {}
                /\ Lines(Ip(e), s, {"Success"}) = {})

\* every engine is done, one of them after two requests
AllDoneAfterLoss ==
    /\ \A e \in Engines : pc[e] = "done"
    /\ Len(emitted[1]) = 2
    /\ delivered = {}

\* the request with sequence s of engine e was handed to send_to, which failed
SendFailed(e, s) == s < Len(sent[e]) /\ ~sent[e][s + 1].ok

\* some request whose send failed has no outcome yet (a failed send stays failed,
\* so it has its outcome as soon as this is false again)
FailedSendPending ==
    \E e \in Engines : \E s \in Seqs : SendFailed(e, s) /\ Count(Ip(e), s) = 0

\* C8: a receive error leaves the engine's state unchanged and its loop goes on to
\* the finish check as after an empty receive; a
\* failed send keeps its sequence number and is recorded in the map, the heap and
\* the outstanding set until it is resolved, and it is resolved in the end.
TransportErrorsSurvived ==
    /\ [][rx_errors' # rx_errors =>
            /\ UNCHANGED <<tracker, seq, next_pkt, timeouts, outstanding, emitted, sent>>
            /\ \E e \in Engines :
                /\ pc[e] = "recv" /\ pc'[e] = ToFinish(e, outstanding[e])
                /\ \A d \in Engines \ {e} : pc'[d] = pc[d]]_vars
    /\ [](\A e \in Engines : \A s \in Seqs :
            SendFailed(e, s) =>
                /\ sent[e][s + 1].seq = s
                /\ s >= seq[e] => pc[e] = "record"
                /\ s < seq[e] =>
                    \/ Count(Ip(e), s) >= 1
                    \/ /\ tracker[Key(Ip(e), s)] # NoTime
                       /\ \E t \in timeouts[e] : t[2] = s
                       /\ Key(Ip(e), s) \in outstanding[e])
    /\ FailedSendPending ~> ~FailedSendPending

\* a request whose send failed has been resolved
FailedSendResolved ==
    \E e \in Engines : \E s \in Seqs : SendFailed(e, s) /\ Count(Ip(e), s) >= 1

\* bit i of x
Bit(x, i) == (x \div (2 ^ i)) % 2

\* the bitwise or of a and b, in 16 bits
BitOr16(a, b) ==
    LET RECURSIVE Or(_)
        Or(i) == IF i < 0 THEN 0
                 ELSE (IF Bit(a, i) = 1 \/ Bit(b, i) = 1 THEN 2 ^ i ELSE 0) + Or(i - 1)
    IN  Or(15)

\* the bitwise complement of x, in 16 bits
Complement16(x) ==
    LET RECURSIVE Flip(_)
        Flip(i) == IF i < 0 THEN 0 ELSE (1 - Bit(x, i)) * (2 ^ i) + Flip(i - 1)
    IN  Flip(15)

\* the IcmpEcho values at hand: the one made and the one decoded
Echoes == {echo[i] : i \in 1 .. Len(echo)} \cup {decoded.echo[i] : i \in 1 .. Len(decoded.echo)}

\* C11: the checksum of a header is the 16-bit complement of
\* ((type << 8 | code) + identifier + sequence) mod 2^16; for an echo request with
\* identifier 12345 and sequence 54321 it is 62357.
ChecksumIsComplement ==
    /\ \A e \in Echoes :
        Checksum(e) =
            Complement16((BitOr16(TypeU8(e.ty) * 256, CodeU8(e.code)) + e.id + e.seq) % 65536)
    /\ echo = <<IcmpEchoNew(12345, 54321)>> => Checksum(echo[1]) = 62357

\* the echo request with identifier 12345 and sequence 54321 has been made and
\* encoded
GoldenEchoEncoded ==
    /\ echo = <<IcmpEchoNew(12345, 54321)>>
    /\ buf # <<>>

\* C12: decoding the buffer an echo request was encoded to gives back its
\* identifier and sequence, with type EchoRequest and code Zero.
RoundTrip ==
    (echo # <<>> /\ decoded # NotDecoded) =>
        /\ decoded.result = "value"
        /\ decoded.echo[1].id = echo[1].id
        /\ decoded.echo[1].seq = echo[1].seq
        /\ decoded.echo[1].ty = <<"EchoRequest">>
        /\ decoded.echo[1].code = <<"Zero">>

\* an echo request whose identifier has two different bytes was encoded and decoded
RoundTripDone ==
    /\ echo # <<>>
    /\ echo[1].id = 256
    /\ echo[1].seq = 54321
    /\ decoded.result = "value"

\* C13: decoding a buffer of 0 to 7 bytes gives a decode error value; it gives no
\* header and does not abort the caller.
ShortBufferIsError ==
    (decoded # NotDecoded /\ Len(buf) < 8) => decoded.result = "error"

\* the heap entries engine e pops in a step
PoppedNow(e) == timeouts[e] \ timeouts'[e]

\* C14: a step that pops a heap entry removes the key of the popped entry from
\* the map, and prints a Timeout line if and only if that key was still in the
\* map.
PopUsesPoppedKey ==
    [][\A e \in Engines : \A top \in PoppedNow(e) :
          /\ tracker'[Key(Ip(e), top[2])] = NoTime
          /\ (emitted'[e] # emitted[e]) <=> (tracker[Key(Ip(e), top[2])] # NoTime)]_vars

\* the Success lines a step adds to the output of engine e
NewSuccess(e) ==
    {emitted'[e][i] : i \in {j \in (Len(emitted[e]) + 1) .. Len(emitted'[e]) :
                                 emitted'[e][j].kind = "Success"}}

\* C15: no Success line is printed for a key that already has an outcome, or that
\* was never sent.
ResolvedReplyDropped ==
    [][\A e \in Engines : \A l \in NewSuccess(e) :
          /\ Count(l.ip, l.seq) = 0
          /\ \E d \in Engines : Ip(d) = l.ip /\ l.seq < seq[d]]_vars

\* C16: a key with an outcome is no longer in the map, and the map holds no key
\* of an engine that has left its loop normally.
EntryRemovedOnce ==
    /\ \A ip \in IPs : \A s \in Seqs : Count(ip, s) >= 1 => tracker[Key(ip, s)] = NoTime
    /\ \A e \in Engines :
        pc[e] = "done" => \A s \in Seqs : tracker[Key(Ip(e), s)] = NoTime

\* Sending, AwaitingReplies/Draining, Done
Phase(e) ==
    IF pc[e] = "done" THEN 2 ELSE IF seq[e] < Requests(e) THEN 0 ELSE 1

\* C17: an engine never sends more than its request count, is done only with its
\* counter at the request count, that many requests sent and nothing outstanding,
\* and goes through its phases in order.
ExactlyRequestsSent ==
    /\ [](\A e \in Engines :
            /\ Len(sent[e]) <= Requests(e)
            /\ pc[e] = "send" => seq[e] < Requests(e)
            /\ pc[e] = "done" =>
                /\ seq[e] = Requests(e)
                /\ Len(sent[e]) = Requests(e)
                /\ outstanding[e] = {})
    /\ [][\A e \in Engines : Phase(e)' >= Phase(e)]_vars

\* an engine is done after two requests
DoneAfterTwoSends ==
    \E e \in Engines : pc[e] = "done" /\ Requests(e) = 2 /\ Len(sent[e]) = 2

\* the Timeout lines of engine e, as indices into its output
TimeoutAt(e) == {i \in 1 .. Len(emitted[e]) : emitted[e][i].kind = "Timeout"}

\* the deadline of the request a line of engine e is about
DeadlineOf(e, i) == sent[e][emitted[e][i].seq + 1].at + TimeoutTicks

\* C19: a Timeout line is printed strictly after the deadline of its request, and
\* the Timeout lines of an engine come in ascending (deadline, sequence) order.
TimeoutAfterDeadlineInOrder ==
    \A e \in Engines : \A i \in TimeoutAt(e) :
        /\ emitted[e][i].at > DeadlineOf(e, i)
        /\ \A j \in TimeoutAt(e) :
            i < j =>
                \/ DeadlineOf(e, i) < DeadlineOf(e, j)
                \/ /\ DeadlineOf(e, i) = DeadlineOf(e, j)
                   /\ emitted[e][i].seq <= emitted[e][j].seq

\* an engine has printed two Timeout lines
TwoTimeoutsPrinted ==
    \E e \in Engines : Cardinality(TimeoutAt(e)) >= 2

\* C20: whichever engines a reply is delivered to, at most one Success line is
\* printed for its key.
OneSuccessPerReply ==
    \A ip \in IPs : \A s \in Seqs : Cardinality(Lines(ip, s, {"Success"})) <= 1

\* both engines have run the reply section on their copy of the reply to A's
\* sequence 0, and one Success line was printed
ReplySeenByBoth ==
    /\ \A e \in Engines : Running(e) /\ rxq[e] = {}
    /\ Reply("A", 0) \in replied
    /\ Cardinality(Lines("A", 0, {"Success"})) = 1

\* the packets engine e takes from its socket in a step
TakenNow(e) == rxq[e] \ rxq'[e]

\* C18: a packet that is not an echo reply (type 0) of at least 8 bytes is passed
\* over: the step that takes it from the socket prints nothing and leaves the map
\* and the outstanding set as they are.
OnlyEchoReplyMatches ==
    [][\A e \in Engines : \A p \in TakenNow(e) :
          ~(p.ty = EchoReplyType /\ p.len >= HeaderSize) =>
              /\ emitted'[e] = emitted[e]
              /\ tracker' = tracker
              /\ outstanding'[e] = outstanding[e]]_vars

====
